---- MODULE Spec2Model ----
(***************************************************************************)
(* Voice-to-text streaming client: the React hook useVoiceToText (the      *)
(* session orchestrator), TranscriptionService (the streaming session),    *)
(* AudioCaptureService (the capture source) and the endpoint connections   *)
(* created by deepgram.listen.live().                                      *)
(*                                                                         *)
(* JavaScript runs every task to completion: one action of this module is  *)
(* one task of the event loop (a call from the UI, an endpoint event, a    *)
(* timer, an audio callback) together with the promise continuations       *)
(* (microtasks) that it makes runnable.  An "await" on something that is   *)
(* settled by a later task ends the action; the continuation is part of    *)
(* the action of the task that settles it.                                 *)
(*                                                                         *)
(* Messages are sequences of text fragments; a template string is a        *)
(* concatenation, and "contains X" is "has a fragment in the set of        *)
(* fragments that contain X".  The em dash of the source's messages is     *)
(* written "-" here.                                                       *)
(***************************************************************************)
EXTENDS Integers, Sequences, FiniteSets, TLC

(* ------------------------------ bounds -------------------------------- *)

\* Connections that exist at one time: listen.live() has created them, and the
\* endpoint or the session can still reach them.
MaxConns == 2

\* stopRecording() calls that may be suspended in finish() at one time.
MaxPendingStops == 1

\* Final results the endpoint sends for one recording.
MaxFinals == 2

\* copyToClipboard() calls that may be suspended in writeText() at one time.
MaxPendingCopies == 1

\* validateApiKey() and runDiagnostics() calls of the hook that may be
\* suspended at one time.
MaxPendingChecks == 2
\* longest frame given to float32ToLinear16() (the capture source's frames hold
\* 4096 samples, each converted alone)
MaxFrameLen == 2
\* a sample is a multiple of 1 / SampleScale
SampleScale == 4096

(* ------------------------- program constants --------------------------- *)

\* transcription.ts:48  const maxAttempts = 2
maxAttempts == 2

\* WebSocket close codes the Close handler tells apart (transcription.ts:165,168)
NormalClosure == 1000
AbnormalClosure == 1006
\* some other non-normal close code (internal error)
OtherClosure == 1011

Conns == 1..MaxConns
NoConn == 0
CloseCodes == {NormalClosure, AbnormalClosure, OtherClosure}

(* ------------------------------ messages ------------------------------ *)

\* error: null in VoiceToTextState
Null == <<>>

\* Message texts of the endpoint's Error events (error.message of the SDK);
\* <<>> is an event without a message.
RawErrorMsgs ==
    { <<"Status: 401">>, <<"403 Forbidden">>, <<"Ready State: CLOSED">>, <<"Network error">>,
      <<"1006">>, <<"boom">>, <<>> }

\* Fragments of the vocabulary that contain the text '1006'
Frag1006 ==
    { "1006",
      "Connection closed abnormally (1006) - possible network/firewall/TLS/proxy issue blocking WebSocket connections" }
\* Fragments of the vocabulary that contain the text 'Network error'
FragNetworkError ==
    { "Network error",
      "Network error - WebSocket connection failed (check network/firewall)" }
\* Fragments matched by /Status:\s*401|401 Unauthorized|No key or access token provided|access token/i
FragAuth ==
    { "Status: 401", "401 Unauthorized", "No key or access token provided", "access token" }
\* Fragments matched by /Status:\s*403|403 Forbidden/i
FragForbidden == { "Status: 403", "403 Forbidden" }
\* Fragments matched by /Connection timeout|timeout|Ready State: CLOSING|Ready State: CLOSED/i
FragTimeout ==
    { "Connection timeout", "timeout", "Timeout", "Ready State: CLOSING", "Ready State: CLOSED" }

Matches(m, frags) == \E i \in 1..Len(m) : m[i] \in frags

MsgConnectionTimeout == <<"Connection timeout">>
MsgAuthFailed == <<"Authentication failed - check your Deepgram API key">>
MsgPermissionDenied == <<"Permission denied - check your Deepgram account and plan">>
MsgNetworkError == <<"Network error - WebSocket connection failed (check network/firewall)">>
MsgTranscriptionError == <<"Transcription error">>
MsgFailedToConnectDeepgram == <<"Failed to connect to Deepgram">>
MsgClosedAbnormally ==
    <<"Connection closed abnormally (1006) - possible network/firewall/TLS/proxy issue blocking WebSocket connections">>
MsgNotInitialized == <<"Services not initialized">>
MsgNoMediaStream == <<"Media stream not initialized. Call requestMicrophoneAccess() first.">>
MsgKeyRequired == <<"Deepgram API key is required">>
MsgCopyFailed == <<"Failed to copy to clipboard">>
MsgMicDenied == <<"Microphone access denied. Please grant permission to use the microphone.">>
MsgNotConnected == <<"Not connected to transcription service">>
MsgSendFailed == <<"Failed to send audio for transcription">>
MsgSdkNotOpen == <<"Could not send. Connection not open.">>


(* ------------------------------- state -------------------------------- *)

VARIABLES
    state,        \* VoiceToTextState of the hook (useVoiceToText.ts:26-33)
    audioRef,     \* audioServiceRef.current # null
    svcRef,       \* transcriptionServiceRef.current # null
    micPending,   \* an initialize() call is suspended in requestMicrophoneAccess()
    valPending,   \* an initialize() call is suspended in validateApiKey()
    audio,        \* the AudioCaptureService object
    svc,          \* the TranscriptionService object
    conns,        \* the connections created by listen.live(), and the connect()
                  \* call suspended on each
    stops,        \* the stopRecording() calls: how many are suspended in finish(),
                  \* the connection each of them called connection.finish() on
                  \* (oldest call first), and what the one that ran last has
                  \* done so far
    out,          \* what the last task's sendAudio() call did: the connection.send()
                  \* it made and the way it ended, in order (<<>>: no such call)
    unmount,      \* the cleanup of the hook's unmount effect: whether it ran ("no",
                  \* "waiting" in finish(), "done"), whether isRecording was true
                  \* when it began, and what it has done so far
    probe,        \* the probeConnection() call that ran last, and its connection
    val,          \* the validateApiKey() call that ran last
    diag,         \* the hook's validateApiKey() and runDiagnostics() calls in flight:
                  \* how many validateApiKey() calls are suspended (validate), and
                  \* how many runDiagnostics() calls wait for validateApiKey()
                  \* (diagValidate) and for probeConnection() (diagProbe)
    pcm,          \* a float32ToLinear16() call: its argument, whether it has
                  \* returned, and the bytes of the buffer it returned
    copies        \* how many copyToClipboard() calls are suspended in
                  \* navigator.clipboard.writeText()

\* The hook, its two services and their connections
appVars == <<state, audioRef, svcRef, micPending, valPending, audio, svc, conns, stops, out,
             unmount, diag, pcm, copies>>

vars == <<state, audioRef, svcRef, micPending, valPending, audio, svc, conns, stops, out,
          unmount, probe, val, diag, pcm, copies>>

\* A connection never returned by listen.live() yet.  st is the socket's state;
\* call, attempts and lastError are the connect() call suspended on it, if any
\* ("await": for Open, Error or the 10 s timer; "backoff": for the 500 ms timer
\* after the attempt on it failed), and that call's locals; made is how many
\* connections that call has created so far.
FreshConn ==
    [st |-> "new", call |-> "none", attempts |-> 0, lastError |-> Null, made |-> 0]

\* What is left of a connection that is closed and that nothing refers to.
ClosedConn == [FreshConn EXCEPT !.st = "closed"]


\* What a probe resolves with: { success, message, code } (code 0: none; the
\* reason of a close is part of the message)
NoResult == [success |-> FALSE, message |-> <<>>, code |-> 0]

\* No probeConnection() call yet.  st is the call ("idle", "pending",
\* "resolved"), conn its connection ("none", "connecting", "open", "closed"),
\* timer whether its timeout is armed, finished the flag of its finish()
\* closure, fin how often probeConn.finish() was called, caller who awaits it.
IdleProbe ==
    [st |-> "idle", conn |-> "none", timer |-> FALSE, finished |-> FALSE, fin |-> 0,
     result |-> NoResult, caller |-> "none"]

\* No validateApiKey() call yet.  st is the call ("idle", "primary": awaits
\* probeConnection(), "native": awaits probeDeepgramNative(), "returned",
\* "thrown"), primary and native the results it got, natives how often it
\* invoked the native probe, error the message it threw.
IdleValidate ==
    [st |-> "idle", primary |-> NoResult, native |-> NoResult, natives |-> 0,
     error |-> Null]

\* No validateApiKey() or runDiagnostics() call of the hook is suspended
NoChecks == [validate |-> 0, diagValidate |-> 0, diagProbe |-> 0]

\* No float32ToLinear16() call
NoFrame == [float32Array |-> <<>>, called |-> FALSE, buffer |-> <<>>]

\* The hook before its first effect, and the objects it will create
InitObjects ==
    /\ state = [isRecording |-> FALSE, isProcessing |-> FALSE, transcript |-> <<>>,
                interimTranscript |-> <<>>, error |-> Null, isReady |-> FALSE]
    /\ audioRef = FALSE
    /\ svcRef = FALSE
    /\ micPending = FALSE
    /\ valPending = FALSE
    /\ audio = [mediaStream |-> FALSE, audioContext |-> FALSE, scriptProcessor |-> FALSE,
                procConnected |-> FALSE, isRecording |-> FALSE,
                onDataAvailableCallback |-> FALSE]
    /\ svc = [connection |-> NoConn, isConnected |-> FALSE,
              onTranscriptCallback |-> FALSE, onErrorCallback |-> FALSE]
    /\ conns = [c \in Conns |-> FreshConn]
    /\ stops = [waiting |-> 0, finished |-> <<>>, trace |-> <<>>]
    /\ out = <<>>
    /\ unmount = [st |-> "no", wasRecording |-> FALSE, trace |-> <<>>]
    /\ probe = IdleProbe
    /\ val = IdleValidate
    /\ diag = NoChecks
    /\ copies = 0

Init ==
    /\ InitObjects
    /\ pcm = NoFrame

(***************************************************************************)
(* The objects a task works on, as one record: the task's code is a chain  *)
(* of functions on it.  exc is the exception in flight (Null: none), wait  *)
(* says that the task's call has reached an await that a later task        *)
(* settles, and trace is what the task's stopRecording() call has done so  *)
(* far: its steps and the connection.finish() calls they made, in order;   *)
(* in a task that starts the capture source, the processor node it made.   *)
(***************************************************************************)
W == [state |-> state, audio |-> audio, svc |-> svc, conns |-> conns,
      out |-> <<>>, exc |-> Null, wait |-> FALSE, trace |-> <<>>]

\* A closed connection that the session does not hold and no connect() call
\* waits on is garbage: no event comes from it and nothing refers to it.
Garbage(w, c) ==
    /\ w.conns[c].st = "closed"
    /\ w.conns[c].call = "none"
    /\ w.svc.connection # c

\* The fields a task has assigned.  setState() of an unmounted component does
\* nothing.
CommitObjects(w) ==
    /\ state' = IF unmount.st = "no" THEN w.state ELSE state
    /\ audio' = w.audio
    /\ svc' = w.svc
    /\ conns' = [c \in Conns |-> IF Garbage(w, c) THEN ClosedConn ELSE w.conns[c]]
    /\ out' = w.out
    /\ UNCHANGED <<probe, val, diag, pcm, copies>>

\* The end of a task of the mounted hook, and of every task of a service
Commit(w) ==
    /\ CommitObjects(w)
    /\ UNCHANGED unmount

\* c was never returned by listen.live(), and no connect() call whose first
\* listen.live() threw is recorded on it
Unused(cs, c) == cs[c].st = "new" /\ cs[c].call = "none"

\* listen.live() returns a connection object that did not exist before: the
\* lowest unused one.
HasFreeConn(cs) == \E c \in Conns : Unused(cs, c)
FreeConn(cs) ==
    CHOOSE c \in Conns : Unused(cs, c) /\ \A d \in Conns : d < c => ~Unused(cs, d)


(* ---------------------- the hook's two callbacks ----------------------- *)

\* useVoiceToText.ts:60-73  the callback registered with onTranscript()
OnTranscriptCallback(w, text, isFinal) ==
    IF isFinal
    THEN [w EXCEPT !.state.transcript = @ \o <<" ">> \o text,
                   !.state.interimTranscript = <<>>]
    ELSE [w EXCEPT !.state.interimTranscript = text]

\* useVoiceToText.ts:76-83  the callback registered with onError()
OnErrorCallback(w, msg) ==
    [w EXCEPT !.state.error = msg,
              !.state.isRecording = FALSE,
              !.state.isProcessing = FALSE]

\* "if (this.onErrorCallback) this.onErrorCallback(new Error(msg))"
\* (transcription.ts:101-103, 151-153, 175-177)
DispatchError(w, msg) ==
    IF w.svc.onErrorCallback THEN OnErrorCallback(w, msg) ELSE w

(* ------------------------ AudioCaptureService -------------------------- *)

\* A startRecording(onDataAvailable) that does not ask for the media stream
AudioStartRecordingUnchecked(w) ==
    IF w.audio.isRecording
    THEN w
    ELSE [w EXCEPT !.audio = [@ EXCEPT !.onDataAvailableCallback = TRUE,
                                       !.audioContext = TRUE,
                                       !.scriptProcessor = TRUE,
                                       !.procConnected = TRUE,
                                       !.isRecording = TRUE],
                   !.trace = Append(@, "createScriptProcessor")]

\* A startRecording(onDataAvailable) that does not ask whether the capture
\* source is recording
AudioStartRecordingAgain(w) ==
    IF ~w.audio.mediaStream
    THEN [w EXCEPT !.exc = MsgNoMediaStream]
    ELSE [w EXCEPT !.audio = [@ EXCEPT !.onDataAvailableCallback = TRUE,
                                       !.audioContext = TRUE,
                                       !.scriptProcessor = TRUE,
                                       !.procConnected = TRUE,
                                       !.isRecording = TRUE],
                   !.trace = Append(@, "createScriptProcessor")]

\* part_000:72-118  AudioCaptureService.startRecording(onDataAvailable): the
\* callback is stored and a processor node created and connected only when
\* there is a media stream and no recording
AudioStartRecording(w) ==
    IF ~w.audio.mediaStream
    THEN [w EXCEPT !.exc = MsgNoMediaStream]
    ELSE IF w.audio.isRecording
         THEN w
         ELSE [w EXCEPT !.audio = [@ EXCEPT !.onDataAvailableCallback = TRUE,
                                            !.audioContext = TRUE,
                                            !.scriptProcessor = TRUE,
                                            !.procConnected = TRUE,
                                            !.isRecording = TRUE],
                        !.trace = Append(@, "createScriptProcessor")]

\* part_000:123-138  AudioCaptureService.stopRecording()
AudioStopRecording(w) ==
    LET w1 == [w EXCEPT !.trace = Append(@, "audio.stopRecording")]
    IN  IF ~w1.audio.isRecording
        THEN w1
        ELSE [w1 EXCEPT !.audio.isRecording = FALSE,
                        !.audio.procConnected = IF w1.audio.scriptProcessor THEN FALSE ELSE @]

(* ------------------------ the SDK's connection ------------------------- *)

\* connection.finish() of the SDK: asks the endpoint to close the stream.  It
\* writes to the socket: a closed socket drops the write, and on a socket that
\* is still connecting the SDK either throws or queues the write, depending on
\* its version: sdkThrows is the environment's choice.
ConnFinish(w, c, sdkThrows) ==
    [w EXCEPT !.trace = Append(@, "connection.finish"),
              !.exc = IF sdkThrows /\ w.conns[c].st = "connecting"
                      THEN MsgSdkNotOpen ELSE Null]

\* connection.send(buffer) of the SDK: on a socket that is not open it either
\* throws or queues the data, depending on its version.
ConnSend(w, c, sdkThrows) ==
    [w EXCEPT !.out = Append(@, <<"connection.send", c>>),
              !.exc = IF sdkThrows /\ w.conns[c].st # "open" THEN MsgSdkNotOpen ELSE Null]

(* ------------------------ TranscriptionService ------------------------- *)

\* transcription.ts:186-208  sendAudio(audioData), for a Float32Array
SendAudio(w, sdkThrows) ==
    IF ~w.svc.isConnected \/ w.svc.connection = NoConn
    THEN [w EXCEPT !.exc = MsgNotConnected]
    ELSE LET w1 == ConnSend(w, w.svc.connection, sdkThrows)
         IN  IF w1.exc # Null THEN [w1 EXCEPT !.exc = MsgSendFailed] ELSE w1

\* transcription.ts:352-360  disconnect()
Disconnect(w, sdkThrows) ==
    LET w0 == [w EXCEPT !.trace = Append(@, "disconnect")]
        w1 == IF w0.svc.connection # NoConn
              THEN ConnFinish(w0, w0.svc.connection, sdkThrows)
              ELSE w0
    IN  IF w1.exc # Null
        THEN w1
        ELSE [w1 EXCEPT !.svc = [connection |-> NoConn, isConnected |-> FALSE,
                                 onTranscriptCallback |-> FALSE,
                                 onErrorCallback |-> FALSE]]

\* A mapping that tests the 403 patterns before the 401 patterns
ClassifyErrorForbiddenFirst(m) ==
    LET userMessage == IF m # <<>> THEN m ELSE MsgTranscriptionError
    IN  IF Matches(userMessage, FragForbidden) THEN MsgPermissionDenied
        ELSE IF Matches(userMessage, FragAuth) THEN MsgAuthFailed
        ELSE IF Matches(userMessage, FragTimeout) THEN MsgNetworkError
        ELSE userMessage

\* transcription.ts:143-149  the Error handler's mapping of the message
ClassifyError(m) ==
    LET userMessage == IF m # <<>> THEN m ELSE MsgTranscriptionError
    IN  IF Matches(userMessage, FragAuth) THEN MsgAuthFailed
        ELSE IF Matches(userMessage, FragForbidden) THEN MsgPermissionDenied
        ELSE IF Matches(userMessage, FragTimeout) THEN MsgNetworkError
        ELSE userMessage

\* transcription.ts:166-173  the Close handler's message (code 0: no code)
CloseMessage(code, reason) ==
    IF code = AbnormalClosure
    THEN MsgClosedAbnormally
    ELSE <<"Connection closed (code ", ToString(code), ")">>
            \o (IF reason # <<>> THEN <<": ">> \o reason ELSE <<>>)

\* transcription.ts:91  the retry condition of connect()'s catch
IsTransient(m) == Matches(m, Frag1006) \/ Matches(m, FragNetworkError)

(* ----------------- startRecording() and its connect() ------------------ *)

\* useVoiceToText.ts:191-199  catch of startRecording()
StartCatch(w) ==
    [w EXCEPT !.state.error = w.exc,
              !.state.isRecording = FALSE,
              !.state.isProcessing = FALSE,
              !.exc = Null]

\* useVoiceToText.ts:177-190  startRecording() once connect() has returned
StartAfterConnect(w) ==
    LET w1 == AudioStartRecording(w)
    IN  IF w1.exc # Null
        THEN StartCatch(w1)
        ELSE [w1 EXCEPT !.state.isRecording = TRUE, !.state.isProcessing = FALSE]

\* transcription.ts:100-106  connect() gives up: the error callback, then the
\* throw, caught by startRecording()
ConnectExhausted(w, lastError) ==
    LET w1 == DispatchError(w, IF lastError # <<>> THEN lastError
                               ELSE MsgFailedToConnectDeepgram)
        thrown == <<"Failed to connect to transcription service: ">>
                    \o (IF lastError # <<>> THEN lastError ELSE <<"[object Object]">>)
    IN  StartCatch([w1 EXCEPT !.exc = thrown])

\* transcription.ts:87-97  catch of one attempt: the call that waits on c
ConnectCatch(w, c, err) ==
    LET attempts == w.conns[c].attempts + 1
    IN  IF IsTransient(err)
        THEN [w EXCEPT !.conns[c].call = "backoff",
                       !.conns[c].attempts = attempts,
                       !.conns[c].lastError = err]
        ELSE ConnectExhausted([w EXCEPT !.conns[c].call = "none",
                                        !.conns[c].attempts = 0,
                                        !.conns[c].made = 0], err)

\* A loop condition that lets one attempt too many through
MayAttemptOnceMore(attempts) == attempts <= maxAttempts

\* transcription.ts:51  the loop condition of connect()
MayAttempt(attempts) == attempts < maxAttempts

\* An attempt that takes the session for connected as soon as listen.live()
\* has returned
NewAttemptOptimistic(w, attempts, made) ==
    LET c == FreeConn(w.conns)
    IN  [w EXCEPT !.conns[c] = [st |-> "connecting", call |-> "await",
                                attempts |-> attempts, lastError |-> Null,
                                made |-> made + 1],
                  !.svc.connection = c,
                  !.svc.isConnected = TRUE]

\* transcription.ts:52-85  one attempt: a new connection, its listeners, and the
\* wait for Open, Error or the 10 s timer
NewAttempt(w, attempts, made) ==
    LET c == FreeConn(w.conns)
    IN  [w EXCEPT !.conns[c] = [st |-> "connecting", call |-> "await",
                                attempts |-> attempts, lastError |-> Null,
                                made |-> made + 1],
                  !.svc.connection = c]

\* transcription.ts:52-54, 87-106  listen.live() throws liveError in the first
\* attempt of a connect() call: the catch runs in the same task.  A transient
\* error sends the call, which has no connection, into the backoff; it is
\* recorded on the connection the next listen.live() will return.
FirstAttemptThrows(w, liveError) ==
    IF IsTransient(liveError)
    THEN ConnectCatch(w, FreeConn(w.conns), liveError)
    ELSE ConnectExhausted(w, liveError)

\* useVoiceToText.ts:159-200  startRecording(), up to its first suspension
\* (liveError: what listen.live() throws, Null when it returns a connection)
StartRecording(liveError) ==
    /\ UNCHANGED <<audioRef, svcRef, micPending, valPending, stops>>
    /\ IF ~audioRef \/ ~svcRef
       THEN Commit([W EXCEPT !.state.error = MsgNotInitialized])
       ELSE LET w1 == [W EXCEPT !.state.isProcessing = TRUE,
                                !.state.error = Null,
                                !.state.transcript = <<>>,
                                !.state.interimTranscript = <<>>]
            IN  IF svc.isConnected
                THEN Commit(StartAfterConnect(w1))
                ELSE IF liveError # Null
                     THEN /\ IsTransient(liveError) => HasFreeConn(conns)
                          /\ Commit(FirstAttemptThrows(w1, liveError))
                     ELSE /\ HasFreeConn(conns)
                          /\ Commit(NewAttempt(w1, 0, 0))

\* transcription.ts:93-94, 51  the 500 ms backoff is over: "continue".  When
\* listen.live() throws in the new attempt, the call stays recorded on c.
BackoffDone(c, liveError) ==
    /\ conns[c].call = "backoff"
    /\ UNCHANGED <<audioRef, svcRef, micPending, valPending, stops>>
    /\ LET w1 == [W EXCEPT !.conns[c].call = "none", !.conns[c].attempts = 0,
                            !.conns[c].lastError = Null, !.conns[c].made = 0]
       IN  IF MayAttempt(conns[c].attempts)
           THEN IF liveError # Null
                THEN Commit(ConnectCatch([W EXCEPT !.conns[c].lastError = Null],
                                         c, liveError))
                ELSE /\ HasFreeConn(w1.conns)
                     /\ Commit(NewAttempt(w1, conns[c].attempts, conns[c].made))
           ELSE Commit(ConnectExhausted(w1, conns[c].lastError))

\* transcription.ts:70-72  the 10 s timer of the attempt on c fires
ConnectTimeout(c) ==
    /\ conns[c].call = "await"
    /\ UNCHANGED <<audioRef, svcRef, micPending, valPending, stops>>
    /\ Commit(ConnectCatch(W, c, MsgConnectionTimeout))


(* --------------------------- endpoint events --------------------------- *)

\* The endpoint still owes events to the listeners of c.
Live(c) == conns[c].st \in {"connecting", "open"}

\* transcription.ts:74-79  Open on c: the handler connect() registered on it,
\* then the continuation of the connect() call that waits on c
OpenEvent(c) ==
    /\ conns[c].st = "connecting"
    /\ UNCHANGED <<audioRef, svcRef, micPending, valPending, stops>>
    /\ LET w1 == [W EXCEPT !.conns[c].st = "open", !.svc.isConnected = TRUE]
       IN  IF conns[c].call = "await"
           THEN Commit(StartAfterConnect([w1 EXCEPT !.conns[c].call = "none",
                                                    !.conns[c].attempts = 0,
                                                    !.conns[c].made = 0]))
           ELSE Commit(w1)

\* transcription.ts:136-154 and 81-84  Error on c: the handler of
\* setupEventListeners(), then the one connect() registered (reject)
ErrorEvent(c, m) ==
    /\ Live(c)
    /\ UNCHANGED <<audioRef, svcRef, micPending, valPending, stops>>
    /\ LET w1 == DispatchError(W, ClassifyError(m))
       IN  IF conns[c].call = "await"
           THEN Commit(ConnectCatch(w1, c, m))
           ELSE Commit(w1)

\* transcription.ts:157-179  Close on c
CloseEvent(c, code, reason) ==
    /\ Live(c)
    /\ UNCHANGED <<audioRef, svcRef, micPending, valPending, stops>>
    /\ LET w1 == [W EXCEPT !.conns[c].st = "closed", !.svc.isConnected = FALSE]
       IN  IF code # 0 /\ code # NormalClosure
           THEN Commit(DispatchError(w1, CloseMessage(code, reason)))
           ELSE Commit(w1)

\* transcription.ts:116-128  Transcript on c
TranscriptEvent(c, text, isFinal) ==
    /\ conns[c].st = "open"
    /\ isFinal => Len(state.transcript) < 2 * MaxFinals
    /\ UNCHANGED <<audioRef, svcRef, micPending, valPending, stops>>
    /\ IF text # <<>> /\ svc.onTranscriptCallback
       THEN Commit(OnTranscriptCallback(W, text, isFinal))
       ELSE Commit(W)

(* --------------------------- the audio thread -------------------------- *)

\* A frame callback whose .catch stops the capture source and reports the error
AudioProcessFailureIsFatal(sdkThrows) ==
    /\ audio.scriptProcessor
    /\ UNCHANGED <<audioRef, svcRef, micPending, valPending, stops>>
    /\ IF audio.isRecording /\ audio.onDataAvailableCallback /\ svcRef
       THEN LET w1 == SendAudio(W, sdkThrows)
                w2 == [w1 EXCEPT !.out = Append(@, <<"sendAudio", w1.exc>>), !.exc = Null]
            IN  IF w1.exc # Null
                THEN Commit([AudioStopRecording(w2) EXCEPT !.state.error = w1.exc,
                                                           !.state.isRecording = FALSE,
                                                           !.trace = <<>>])
                ELSE Commit(w2)
       ELSE Commit(W)

\* An onaudioprocess handler that does not test isRecording
AudioProcessUntested(sdkThrows) ==
    /\ audio.scriptProcessor
    /\ UNCHANGED <<audioRef, svcRef, micPending, valPending, stops>>
    /\ IF audio.onDataAvailableCallback /\ svcRef
       THEN LET w1 == SendAudio(W, sdkThrows)
            IN  Commit([w1 EXCEPT !.out = Append(@, <<"sendAudio", w1.exc>>), !.exc = Null])
       ELSE Commit(W)

\* part_000:103-110 and useVoiceToText.ts:178-184  onaudioprocess of the
\* ScriptProcessorNode, the hook's frame callback, sendAudio() and the .catch
\* that logs its failure.  Whether a node that stopRecording() has
\* disconnected still gets an event is the browser's choice.
AudioProcess(sdkThrows) ==
    /\ audio.scriptProcessor
    /\ UNCHANGED <<audioRef, svcRef, micPending, valPending, stops>>
    /\ IF audio.isRecording /\ audio.onDataAvailableCallback /\ svcRef
       THEN LET w1 == SendAudio(W, sdkThrows)
            IN  Commit([w1 EXCEPT !.out = Append(@, <<"sendAudio", w1.exc>>), !.exc = Null])
       ELSE Commit(W)

(* --------------------------- stopRecording() --------------------------- *)

\* A finish() whose catch throws again what connection.finish() threw
FinishCallRethrowing(w, sdkThrows) ==
    LET w1 == [w EXCEPT !.trace = Append(@, "finish")]
    IN  IF w1.svc.connection = NoConn
        THEN [w1 EXCEPT !.trace = Append(@, "finish returned")]
        ELSE LET w2 == ConnFinish(w1, w1.svc.connection, sdkThrows)
             IN  IF w2.exc # Null
                 THEN w2
                 ELSE [w2 EXCEPT !.wait = TRUE]

\* transcription.ts:335-347  finish(), up to its 500 ms wait: without a
\* connection it returns at once, and so it does when connection.finish()
\* throws (the catch logs it)
FinishCall(w, sdkThrows) ==
    LET w1 == [w EXCEPT !.trace = Append(@, "finish")]
    IN  IF w1.svc.connection = NoConn
        THEN [w1 EXCEPT !.trace = Append(@, "finish returned")]
        ELSE LET w2 == ConnFinish(w1, w1.svc.connection, sdkThrows)
             IN  IF w2.exc # Null
                 THEN [w2 EXCEPT !.exc = Null, !.trace = Append(@, "finish returned")]
                 ELSE [w2 EXCEPT !.wait = TRUE]

\* stopRecording() that calls finish() while the capture source still runs
StopStepsFinishFirst(w, sdkThrows) == AudioStopRecording(FinishCall(w, sdkThrows))

\* useVoiceToText.ts:213-217  stopRecording(): the capture source, then finish()
StopSteps(w, sdkThrows) == FinishCall(AudioStopRecording(w), sdkThrows)

\* useVoiceToText.ts:228-235  catch of stopRecording()
StopCatch(w) ==
    [w EXCEPT !.state.error = w.exc,
              !.state.isRecording = FALSE,
              !.state.isProcessing = FALSE,
              !.exc = Null]

\* useVoiceToText.ts:217-235  stopRecording() once finish() has settled: an
\* exception of finish() goes to the catch, and so does one of disconnect()
StopAfterFinish(w, sdkThrows) ==
    IF w.exc # Null
    THEN StopCatch(w)
    ELSE LET w1 == Disconnect(w, sdkThrows)
         IN  IF w1.exc # Null
             THEN StopCatch(w1)
             ELSE [w1 EXCEPT !.state.isRecording = FALSE,
                             !.state.isProcessing = FALSE,
                             !.state.interimTranscript = <<>>]

\* What every stopRecording() call suspended in finish() has done: it waits
\* only after a connection.finish() that did not throw.
TraceToFinish == <<"audio.stopRecording", "finish", "connection.finish">>

\* useVoiceToText.ts:205-237  stopRecording(), up to the 500 ms wait of finish();
\* when finish() does not wait, through to the end
StopRecording(throws1, throws2) ==
    /\ UNCHANGED <<audioRef, svcRef, micPending, valPending>>
    /\ IF ~audioRef \/ ~svcRef
       THEN Commit(W) /\ UNCHANGED stops
       ELSE LET w1 == StopSteps([W EXCEPT !.state.isProcessing = TRUE], throws1)
            IN  IF w1.wait
                THEN /\ stops.waiting < MaxPendingStops
                     /\ Commit(w1)
                     /\ stops' = [waiting |-> stops.waiting + 1,
                                  finished |-> Append(stops.finished, svc.connection),
                                  trace |-> w1.trace]
                ELSE LET w2 == StopAfterFinish(w1, throws2)
                     IN  /\ Commit(w2)
                         /\ stops' = [stops EXCEPT !.trace = w2.trace]

\* transcription.ts:343-347 and useVoiceToText.ts:219-235  the 500 ms timer of
\* finish() fires for the stopRecording() call suspended longest: finish()
\* returns
FinishTimer(sdkThrows) ==
    /\ stops.waiting > 0
    /\ UNCHANGED <<audioRef, svcRef, micPending, valPending>>
    /\ LET w1 == StopAfterFinish([W EXCEPT !.trace = Append(TraceToFinish, "finish returned")],
                                 sdkThrows)
       IN  /\ Commit(w1)
           /\ stops' = [waiting |-> stops.waiting - 1,
                        finished |-> Tail(stops.finished),
                        trace |-> w1.trace]

\* A clearTranscript() that ends the recording display as well
ClearTranscriptAndRecording ==
    /\ UNCHANGED <<audioRef, svcRef, micPending, valPending, stops>>
    /\ Commit([W EXCEPT !.state.transcript = <<>>,
                        !.state.interimTranscript = <<>>,
                        !.state.error = Null,
                        !.state.isRecording = FALSE])

\* useVoiceToText.ts:242-249  clearTranscript()
ClearTranscript ==
    /\ UNCHANGED <<audioRef, svcRef, micPending, valPending, stops>>
    /\ Commit([W EXCEPT !.state.transcript = <<>>,
                        !.state.interimTranscript = <<>>,
                        !.state.error = Null])


\* useVoiceToText.ts:254-265  copyToClipboard(), up to its suspension in
\* writeText(): it returns at once without a transcript; when the call of
\* writeText() itself throws (no navigator.clipboard), the catch sets the
\* error in the same task and nothing is left pending
CopyToClipboard(throws) ==
    /\ (state.transcript # <<>> /\ ~throws) => copies < MaxPendingCopies
    /\ copies' = IF state.transcript # <<>> /\ ~throws THEN copies + 1 ELSE copies
    /\ state' = IF state.transcript # <<>> /\ throws /\ unmount.st = "no"
                THEN [state EXCEPT !.error = MsgCopyFailed]
                ELSE state
    /\ out' = <<>>
    /\ UNCHANGED <<audioRef, svcRef, micPending, valPending, audio, svc, conns,
                   stops, unmount, probe, val, diag, pcm>>

\* useVoiceToText.ts:257-265  writeText() settles: when the clipboard rejects
\* the text, the catch sets the error
CopySettled(rejected) ==
    /\ copies > 0
    /\ copies' = copies - 1
    /\ state' = IF rejected /\ unmount.st = "no"
                THEN [state EXCEPT !.error = MsgCopyFailed]
                ELSE state
    /\ out' = <<>>
    /\ UNCHANGED <<audioRef, svcRef, micPending, valPending, audio, svc, conns,
                   stops, unmount, probe, val, diag, pcm>>

(* ------------------------------- unmount ------------------------------- *)

\* A cleanup() that keeps the frame callback
AudioCleanupKeepingCallback(w) ==
    LET w1 == [w EXCEPT !.trace = Append(@, "audio.cleanup")]
        w2 == IF w1.audio.isRecording THEN AudioStopRecording(w1) ELSE w1
    IN  [w2 EXCEPT !.audio = [mediaStream |-> FALSE, audioContext |-> FALSE,
                              scriptProcessor |-> FALSE, procConnected |-> FALSE,
                              isRecording |-> w2.audio.isRecording,
                              onDataAvailableCallback |-> w2.audio.onDataAvailableCallback]]

\* part_000:150-171  AudioCaptureService.cleanup()
AudioCleanup(w) ==
    LET w1 == [w EXCEPT !.trace = Append(@, "audio.cleanup")]
        w2 == IF w1.audio.isRecording THEN AudioStopRecording(w1) ELSE w1
    IN  [w2 EXCEPT !.audio = [mediaStream |-> FALSE, audioContext |-> FALSE,
                              scriptProcessor |-> FALSE, procConnected |-> FALSE,
                              isRecording |-> w2.audio.isRecording,
                              onDataAvailableCallback |-> FALSE]]

\* A cleanup that disconnects only a session that is connected
UnmountAfterFinishIfConnected(w, sdkThrows) ==
    IF w.svc.isConnected
    THEN [Disconnect(w, sdkThrows) EXCEPT !.exc = Null]
    ELSE w

\* useVoiceToText.ts:278-280  the finally() callback of the cleanup: finish() has
\* settled, disconnect() is called; what it throws rejects a promise nobody
\* holds
UnmountAfterFinish(w, sdkThrows) ==
    [Disconnect(w, sdkThrows) EXCEPT !.exc = Null]

\* useVoiceToText.ts:271-283  the cleanup of the unmount effect, up to the
\* 500 ms wait of finish(); when finish() does not wait, through to the end
Unmount(throws1, throws2) ==
    /\ unmount.st = "no"
    /\ UNCHANGED <<audioRef, svcRef, micPending, valPending, stops>>
    /\ LET w1 == IF audioRef THEN AudioCleanup(W) ELSE W
       IN  IF ~svcRef
           THEN /\ CommitObjects(w1)
                /\ unmount' = [st |-> "done", wasRecording |-> state.isRecording,
                               trace |-> w1.trace]
           ELSE LET w2 == FinishCall(w1, throws1)
                IN  IF w2.wait
                    THEN /\ CommitObjects(w2)
                         /\ unmount' = [st |-> "waiting",
                                        wasRecording |-> state.isRecording,
                                        trace |-> w2.trace]
                    ELSE LET w3 == UnmountAfterFinish(w2, throws2)
                         IN  /\ CommitObjects(w3)
                             /\ unmount' = [st |-> "done",
                                            wasRecording |-> state.isRecording,
                                            trace |-> w3.trace]

\* transcription.ts:343-347 and useVoiceToText.ts:278-280  the 500 ms timer of
\* finish() fires for the cleanup
UnmountFinishTimer(sdkThrows) ==
    /\ unmount.st = "waiting"
    /\ UNCHANGED <<audioRef, svcRef, micPending, valPending, stops>>
    /\ LET w1 == UnmountAfterFinish(
                     [W EXCEPT !.trace = Append(unmount.trace, "finish returned")],
                     sdkThrows)
       IN  /\ CommitObjects(w1)
           /\ unmount' = [unmount EXCEPT !.st = "done", !.trace = w1.trace]

(* ----------------------------- initialize() ---------------------------- *)

MsgProbeTimedOut == <<"WebSocket probe timed out">>

\* transcription.ts:259-271  what validateApiKey() throws when both probes fail
ValidateErrors ==
    { MsgAuthFailed,
      <<"WebSocket connection failed (possible network/firewall/proxy issue): ">>
          \o MsgProbeTimedOut }

\* The one of them in the lifecycle specification
LifecycleValidateErrors == { MsgAuthFailed }

\* useVoiceToText.ts:90-98  catch of initialize()
InitCatch(w, msg) ==
    [w EXCEPT !.state.error = msg,
              !.state.isProcessing = FALSE,
              !.state.isReady = FALSE]

\* useVoiceToText.ts:89  the last statement of initialize()'s try block
InitDone(w) ==
    [w EXCEPT !.state.isProcessing = FALSE, !.state.isReady = TRUE]

\* useVoiceToText.ts:51-98  initialize() from the transcription service on: the
\* service is constructed and its callbacks registered only when the ref is
\* empty, and only then is the key validated.  The constructor throws when the
\* configured key is empty (transcription.ts:30-33): the ref stays empty and
\* the catch of initialize() runs.  validateApiKey() suspends the call
\* (valFailure = Null), or it rejects before the task ends (valFailure: its
\* message; listen.live() of the probe throws and invoke() of the native probe
\* fails at once) and the catch runs in the same task.
InitService(w, keyEmpty, valFailure) ==
    IF ~svcRef
    THEN IF keyEmpty
         THEN /\ UNCHANGED <<svcRef, valPending>>
              /\ Commit(InitCatch(w, MsgKeyRequired))
         ELSE LET w1 == [w EXCEPT !.svc.onTranscriptCallback = TRUE,
                                  !.svc.onErrorCallback = TRUE]
              IN  /\ svcRef' = TRUE
                  /\ IF valFailure # Null
                     THEN /\ UNCHANGED valPending
                          /\ Commit(InitCatch(w1, valFailure))
                     ELSE /\ valPending' = TRUE
                          /\ Commit(w1)
    ELSE /\ UNCHANGED <<svcRef, valPending>>
         /\ Commit(InitDone(w))

\* useVoiceToText.ts:41-98  initialize(), up to its first suspension, or to
\* its end when nothing suspends it (keyEmpty: config.deepgramApiKey of the
\* hook is the empty string; micThrows: the call of getUserMedia() throws, as
\* without navigator.mediaDevices, so that requestMicrophoneAccess() rejects
\* and the catch runs in the same task; valFailure: as for InitService)
Initialize(keyEmpty, micThrows, valFailure) ==
    /\ UNCHANGED stops
    /\ LET w1 == [W EXCEPT !.state.isProcessing = TRUE, !.state.error = Null]
       IN  IF ~audioRef
           THEN /\ audioRef' = TRUE
                /\ UNCHANGED <<svcRef, valPending>>
                /\ IF micThrows
                   THEN /\ UNCHANGED micPending
                        /\ Commit(InitCatch(w1, MsgMicDenied))
                   ELSE /\ micPending' = TRUE
                        /\ Commit(w1)
           ELSE /\ UNCHANGED <<audioRef, micPending>>
                /\ InitService(w1, keyEmpty, valFailure)

\* part_000:52-66 and useVoiceToText.ts:48-98  getUserMedia() settles for the
\* initialize() call that waits for it (keyEmpty: the key that call was made
\* with is the empty string; valFailure: as for InitService)
MicResult(granted, keyEmpty, valFailure) ==
    /\ micPending
    /\ micPending' = FALSE
    /\ UNCHANGED <<audioRef, stops>>
    /\ IF granted
       THEN InitService([W EXCEPT !.audio.mediaStream = TRUE], keyEmpty, valFailure)
       ELSE /\ UNCHANGED <<svcRef, valPending>>
            /\ Commit(InitCatch(W, MsgMicDenied))

\* transcription.ts:249-272 and useVoiceToText.ts:86-98  validateApiKey() settles
\* for the initialize() call that waits for it (failure: Null when it resolves)
ValidateResult(failure) ==
    /\ valPending
    /\ valPending' = FALSE
    /\ UNCHANGED <<audioRef, svcRef, micPending, stops>>
    /\ IF failure = Null
       THEN Commit(InitDone(W))
       ELSE Commit(InitCatch(W, failure))

(* ------------ the hook's validateApiKey() and runDiagnostics() ---------- *)

\* A task of the hook that assigns state only; it calls no sendAudio()
CommitState(st) ==
    /\ state' = IF unmount.st = "no" THEN st ELSE state
    /\ out' = <<>>
    /\ UNCHANGED <<audioRef, svcRef, micPending, valPending, audio, svc, conns, stops,
                   unmount, probe, val, pcm, copies>>

\* The calls counted by diag that are suspended
PendingChecks == diag.validate + diag.diagValidate + diag.diagProbe

\* useVoiceToText.ts:104-120  the hook's validateApiKey(), up to its await;
\* without a service it sets the error and throws; when the service's
\* validateApiKey() rejects before the task ends (valFailure # Null), the catch
\* runs in the same task
HookValidate(valFailure) ==
    IF ~svcRef
    THEN /\ CommitState([state EXCEPT !.error = MsgNotInitialized])
         /\ UNCHANGED diag
    ELSE IF valFailure # Null
         THEN /\ CommitState([state EXCEPT !.isProcessing = FALSE,
                                           !.error = valFailure])
              /\ UNCHANGED diag
         ELSE /\ CommitState([state EXCEPT !.isProcessing = TRUE, !.error = Null])
              /\ diag' = [diag EXCEPT !.validate = @ + 1]

\* useVoiceToText.ts:112-120  the service's validateApiKey() settles for a
\* suspended validateApiKey() call of the hook (failure: Null when it resolves)
HookValidateResult(failure) ==
    /\ diag.validate > 0
    /\ diag' = [diag EXCEPT !.validate = @ - 1]
    /\ CommitState(IF failure = Null
                   THEN [state EXCEPT !.isProcessing = FALSE]
                   ELSE [state EXCEPT !.isProcessing = FALSE, !.error = failure])

\* useVoiceToText.ts:145-153  runDiagnostics() from probeConnection() on: when
\* its listen.live() throws (liveError # Null), probeConnection() resolves with
\* the failure at once (transcription.ts:277-280, 327-329) and runDiagnostics()
\* ends in the same task; else it is suspended until the probe resolves.
\* st: the hook's state so far, d: the calls counted so far.
DiagnosticsProbe(st, d, liveError) ==
    IF liveError # Null
    THEN /\ diag' = d
         /\ CommitState([st EXCEPT !.isProcessing = FALSE])
    ELSE /\ diag' = [d EXCEPT !.diagProbe = @ + 1]
         /\ CommitState(st)

\* useVoiceToText.ts:127-153  runDiagnostics(), up to its first suspension, or
\* to its end when nothing suspends it (valSettles: validateApiKey() rejects
\* before the task ends; what it rejected with goes into the result only)
RunDiagnostics(valSettles, liveError) ==
    IF ~svcRef
    THEN /\ CommitState([state EXCEPT !.error = MsgNotInitialized])
         /\ UNCHANGED diag
    ELSE LET st == [state EXCEPT !.isProcessing = TRUE, !.error = Null]
         IN  IF valSettles
             THEN DiagnosticsProbe(st, diag, liveError)
             ELSE /\ CommitState(st)
                  /\ diag' = [diag EXCEPT !.diagValidate = @ + 1]

\* useVoiceToText.ts:138-153  validateApiKey() settles for a suspended
\* runDiagnostics() call, either way, and probeConnection() is called
DiagnosticsValidateResult(liveError) ==
    /\ diag.diagValidate > 0
    /\ DiagnosticsProbe(state, [diag EXCEPT !.diagValidate = @ - 1], liveError)

\* useVoiceToText.ts:145-153  probeConnection() resolves for a suspended
\* runDiagnostics() call
DiagnosticsProbeResult ==
    /\ diag.diagProbe > 0
    /\ diag' = [diag EXCEPT !.diagProbe = @ - 1]
    /\ CommitState([state EXCEPT !.isProcessing = FALSE])

(* ------------------- validateApiKey() and its probes ------------------- *)

\* Fragments matched by /Authentication failed|401|Unauthorized|access token/i
FragValidateAuth ==
    { "Status: 401", "401 Unauthorized", "No key or access token provided", "access token",
      "Authentication failed - check your Deepgram API key",
      "Authentication failed (HTTP 401)" }
\* Fragments matched by /timed out|WebSocket probe timed out|timeout|Timeout/i
FragValidateTimeout ==
    { "WebSocket probe timed out", "Connection timed out", "Connection timeout",
      "timeout", "Timeout" }

\* What the native probe command reports when it fails (<<>>: no message)
NativeMessages ==
    { <<"Authentication failed (HTTP 401)">>, <<"Connection timed out">>,
      <<"tls handshake failed">>, <<>> }

\* Reasons of the Close events of a probe connection (<<>>: none)
ProbeCloseReasons == { <<>>, <<"policy">> }

\* A closure without the flag: every call finishes the connection and, the
\* promise being settled already, keeps its first result
ProbeFinishUnguarded(p, result) ==
    [p EXCEPT !.finished = TRUE, !.fin = @ + 1,
              !.result = IF p.st = "resolved" THEN @ ELSE result,
              !.st = "resolved"]

\* A closure that lets its last call decide the result
ProbeFinishLastWins(p, result) ==
    [p EXCEPT !.fin = IF p.finished THEN @ ELSE @ + 1, !.finished = TRUE,
              !.result = result, !.st = "resolved"]

\* transcription.ts:294-303  the finish(result) closure of probeConnection():
\* only its first call finishes the connection (fin counts the calls of
\* probeConn.finish(); what it throws is ignored) and resolves the promise
ProbeFinish(p, result) ==
    IF p.finished
    THEN p
    ELSE [p EXCEPT !.finished = TRUE, !.fin = @ + 1, !.result = result,
                   !.st = "resolved"]

\* transcription.ts:259-271  validateApiKey(): the error for two failed probes
ValidateError(primary, native) ==
    LET msg == IF native.message # <<>> THEN native.message ELSE primary.message
    IN  IF Matches(msg, FragValidateAuth)
        THEN MsgAuthFailed
        ELSE IF Matches(msg, FragValidateTimeout) \/ primary.code = AbnormalClosure
             THEN <<"WebSocket connection failed (possible network/firewall/proxy issue): ">>
                    \o msg
             ELSE <<"Deepgram API key validation failed: ">> \o msg

\* A validateApiKey() that gives up when the browser probe fails
ValidateAfterPrimaryNoFallback(v, result, invoke) ==
    IF result.success
    THEN [v EXCEPT !.st = "returned", !.primary = result]
    ELSE [v EXCEPT !.st = "thrown", !.primary = result,
                   !.error = ValidateError(result, NoResult)]

\* transcription.ts:257-271  validateApiKey() once the native probe has resolved
ValidateAfterNative(v, result) ==
    IF result.success
    THEN [v EXCEPT !.st = "returned", !.native = result]
    ELSE [v EXCEPT !.st = "thrown", !.native = result,
                   !.error = ValidateError(v.primary, result)]

\* part_000:28-33  what probeDeepgramNative() resolves with when invoke() has
\* failed (message: the message of the error, <<>> for an object without one)
NativeFailure(message) ==
    [success |-> FALSE,
     message |-> <<"Native probe failed: ">>
                    \o (IF message # <<>> THEN message ELSE <<"[object Object]">>),
     code |-> 0]

\* How invoke() of the native probe goes on in the task that calls it: it is
\* pending when the task ends, or it has failed at once with this message
InvokePending == "pending"
InvokeOutcomes == { InvokePending, <<>>, <<"invoke unavailable">> }

\* transcription.ts:251-271  validateApiKey() once probeConnection() has
\* resolved: it returns, or invokes the native probe and awaits it; when
\* invoke() fails at once, it goes on in the same task and throws
ValidateAfterPrimary(v, result, invoke) ==
    IF result.success
    THEN [v EXCEPT !.st = "returned", !.primary = result]
    ELSE LET v1 == [v EXCEPT !.st = "native", !.primary = result, !.natives = @ + 1]
         IN  IF invoke = InvokePending
             THEN v1
             ELSE ValidateAfterNative(v1, NativeFailure(invoke))

\* The task that changed the probe to p ends: when it resolved the promise of
\* probeConnection(), the validateApiKey() call that awaits it goes on
ProbeCommit(p, invoke) ==
    /\ probe' = p
    /\ val' = IF probe.st # "resolved" /\ p.st = "resolved" /\ p.caller = "validate"
              THEN ValidateAfterPrimary(val, p.result, invoke)
              ELSE val
    /\ UNCHANGED appVars

\* transcription.ts:277-291, 305-307, 327-329  probeConnection() is called, by
\* validateApiKey() or by the diagnostics: listen.live() returns a connection
\* and the timeout is armed, or it throws and the call resolves with a failure.
\* probe and val go over to the new call.
ProbeStart(caller, liveThrows, invoke) ==
    /\ LET v == IF caller = "validate"
                THEN [IdleValidate EXCEPT !.st = "primary"]
                ELSE val
       IN  IF liveThrows
           THEN LET p == [IdleProbe EXCEPT
                            !.st = "resolved", !.caller = caller,
                            !.result = [success |-> FALSE,
                                        message |-> <<"Probe failed: ", "boom">>,
                                        code |-> 0]]
                IN  /\ probe' = p
                    /\ val' = IF caller = "validate"
                              THEN ValidateAfterPrimary(v, p.result, invoke)
                              ELSE v
                    /\ UNCHANGED appVars
           ELSE /\ probe' = [IdleProbe EXCEPT !.st = "pending", !.conn = "connecting",
                                              !.timer = TRUE, !.caller = caller]
                /\ val' = v
                /\ UNCHANGED appVars

\* transcription.ts:305-307  the timeout of the probe fires
ProbeTimeout(invoke) ==
    /\ probe.timer
    /\ ProbeCommit(ProbeFinish([probe EXCEPT !.timer = FALSE],
                               [success |-> FALSE,
                                message |-> <<"WebSocket probe timed out">>,
                                code |-> 0]),
                   invoke)

\* transcription.ts:309-312  Open on the probe connection
ProbeOpen ==
    /\ probe.conn = "connecting"
    /\ ProbeCommit(ProbeFinish([probe EXCEPT !.timer = FALSE, !.conn = "open"],
                               [success |-> TRUE,
                                message |-> <<"WebSocket opened successfully">>,
                                code |-> 0]),
                   InvokePending)

\* transcription.ts:314-318  Error on the probe connection
ProbeError(m, invoke) ==
    /\ probe.conn \in {"connecting", "open"}
    /\ ProbeCommit(ProbeFinish([probe EXCEPT !.timer = FALSE],
                               [success |-> FALSE,
                                message |-> <<"Error: ">>
                                    \o (IF m # <<>> THEN m ELSE <<"[object Object]">>),
                                code |-> 0]),
                   invoke)

\* transcription.ts:320-325  Close on the probe connection
ProbeClose(code, reason, invoke) ==
    /\ probe.conn \in {"connecting", "open"}
    /\ ProbeCommit(ProbeFinish([probe EXCEPT !.timer = FALSE, !.conn = "closed"],
                               [success |-> FALSE,
                                message |-> <<"Closed (code ", ToString(code), ")">>
                                    \o (IF reason # <<>> THEN <<": ">> \o reason ELSE <<>>),
                                code |-> code]),
                   invoke)

\* part_000:18-34 and transcription.ts:256-271  probeDeepgramNative() resolves
\* for the validateApiKey() call that awaits it: with what the command
\* reported, or, when invoke() rejected, with a failure of its own (message:
\* the message of what it rejected with, <<>> for an object without one)
NativeResult(success, message, rejected) ==
    /\ val.st = "native"
    /\ val' = ValidateAfterNative(val,
                 IF rejected
                 THEN NativeFailure(message)
                 ELSE [success |-> success, message |-> message, code |-> 0])
    /\ UNCHANGED probe
    /\ UNCHANGED appVars

\* The call that probe and val follow is over.  The connection, the flag, the
\* timer and the results of a call are its locals, shared with no other call,
\* so each call is followed from its start to its end, one after the other.
CallOver ==
    /\ probe.st # "pending"
    /\ val.st \notin {"primary", "native"}

\* The service's key validation and connection probe, with an endpoint that
\* may open, fail or close the probe connection at any time, or do nothing
NextProbe ==
    \/ \E caller \in {"validate", "diagnostics"}, t \in BOOLEAN, i \in InvokeOutcomes :
          /\ CallOver
          /\ ProbeStart(caller, t, i)
    \/ \E i \in InvokeOutcomes : ProbeTimeout(i)
    \/ ProbeOpen
    \/ \E m \in RawErrorMsgs, i \in InvokeOutcomes : ProbeError(m, i)
    \/ \E code \in CloseCodes, r \in ProbeCloseReasons, i \in InvokeOutcomes :
          ProbeClose(code, r, i)
    \/ \E ok \in BOOLEAN, m \in NativeMessages, rej \in BOOLEAN : NativeResult(ok, m, rej)

\* A timeout that is armed and not cleared fires
SpecProbe == Init /\ [][NextProbe]_vars /\ WF_vars(\E i \in InvokeOutcomes : ProbeTimeout(i))

(* -------------------------- float32ToLinear16() ------------------------ *)

\* The values of a Float32Array element: the number n / SampleScale, NaN, or
\* an infinity (n: its sign).  The products below are exact in a double.
Num(n) == [kind |-> "num", n |-> n]
NaN == [kind |-> "nan", n |-> 0]
PosInfinity == [kind |-> "inf", n |-> 1]
NegInfinity == [kind |-> "inf", n |-> -1]

\* a < b for two values that are not NaN
Lt(a, b) ==
    IF a.kind = "inf" THEN a.n < 0 /\ ~(b.kind = "inf" /\ b.n < 0)
    ELSE IF b.kind = "inf" THEN b.n > 0
    ELSE a.n < b.n

\* Math.min(a, b) and Math.max(a, b): NaN when either is
MathMin(a, b) ==
    IF a.kind = "nan" \/ b.kind = "nan" THEN NaN ELSE IF Lt(b, a) THEN b ELSE a
MathMax(a, b) ==
    IF a.kind = "nan" \/ b.kind = "nan" THEN NaN ELSE IF Lt(a, b) THEN b ELSE a

\* x * k for an integer k > 0
Times(x, k) == IF x.kind = "num" THEN Num(x.n * k) ELSE x

\* The integer part of n / d, rounded toward zero
TruncDiv(n, d) == IF n >= 0 THEN n \div d ELSE -((-n) \div d)

\* The value an Int16Array element takes when x is assigned to it: NaN and the
\* infinities give 0, a number is truncated and wraps modulo 2^16
ToInt16(x) ==
    IF x.kind # "num" THEN 0
    ELSE LET u == TruncDiv(x.n, SampleScale) % 65536
         IN  IF u >= 32768 THEN u - 65536 ELSE u

\* The loop body with the same factor for both signs
EncodeSampleSymmetric(x) ==
    LET sample == MathMax(Num(-SampleScale), MathMin(Num(SampleScale), x))
    IN  ToInt16(Times(sample, 32768))

\* transcription.ts:217-223  the loop body: the element is clamped to [-1, 1]
\* and scaled, by 32768 when it is negative and by 32767 otherwise
EncodeSample(x) ==
    LET sample == MathMax(Num(-SampleScale), MathMin(Num(SampleScale), x))
    IN  ToInt16(IF sample.kind # "nan" /\ Lt(sample, Num(0))
                THEN Times(sample, 32768)
                ELSE Times(sample, 32767))

\* The bytes of the buffer of an Int16Array, low byte first
Int16Buffer(int16Array) ==
    [j \in 1..(2 * Len(int16Array)) |->
        LET u == int16Array[(j + 1) \div 2] % 65536
        IN  IF j % 2 = 1 THEN u % 256 ELSE u \div 256]

\* transcription.ts:214-226  float32ToLinear16()
float32ToLinear16(float32Array) ==
    Int16Buffer([i \in 1..Len(float32Array) |-> EncodeSample(float32Array[i])])

\* The elements the frames are made of: 0, 1 and -1, their neighbours, values
\* beyond them, the smallest ones, and the values that are no numbers
Samples ==
    { Num(n) : n \in { -2 * SampleScale, -SampleScale - 1, -SampleScale, -SampleScale + 1,
                       -(SampleScale \div 2), -1, 0, 1, SampleScale \div 2,
                       SampleScale - 1, SampleScale, SampleScale + 1, 2 * SampleScale } }
      \cup { NaN, PosInfinity, NegInfinity }

Frames == UNION { [1..n -> Samples] : n \in 0..MaxFrameLen }

\* transcription.ts:199-201  sendAudio() converts the frame
Float32ToLinear16Call ==
    /\ ~pcm.called
    /\ pcm' = [pcm EXCEPT !.called = TRUE, !.buffer = float32ToLinear16(pcm.float32Array)]
    /\ UNCHANGED <<state, audioRef, svcRef, micPending, valPending, audio, svc, conns,
                   stops, out, unmount, probe, val, diag, copies>>

(* ------------------------------ the App ------------------------------- *)

\* App.tsx:60-62, 268-269  the record button: disabled unless isReady and not
\* isProcessing; it stops when isRecording and starts otherwise
ToggleRecording(throws1, throws2, liveError) ==
    /\ state.isReady
    /\ ~state.isProcessing
    /\ IF state.isRecording
       THEN StopRecording(throws1, throws2)
       ELSE StartRecording(liveError)

\* App.tsx:244  the Clear button: disabled while the transcript is empty
ClearButton ==
    /\ state.transcript # <<>>
    /\ ClearTranscript

\* App.tsx:247  the Copy button: disabled while the transcript is empty
CopyButton(throws) ==
    /\ state.transcript # <<>>
    /\ CopyToClipboard(throws)

(* ---------------------------- specifications --------------------------- *)

\* App.tsx:41-45  the effect that calls initialize() once a key is configured,
\* and again whenever the key is replaced (handleReconfigure, then a new key),
\* also while an earlier call is suspended.  The key is never empty.
AppInitialize(micThrows, valFailure) == Initialize(FALSE, micThrows, valFailure)

\* What validateApiKey() does in the task that calls it: it is suspended when
\* the task ends (Null), or it has thrown, listen.live() of the browser probe
\* and invoke() of the native probe having both failed at once
ValidateAtOnce ==
    { Null,
      ValidateError([success |-> FALSE, message |-> <<"Probe failed: ", "boom">>,
                     code |-> 0],
                    NativeFailure(<<"invoke unavailable">>)) }

\* Message texts of the endpoint's Error events in the lifecycle specification:
\* one the retry condition takes for transient, one it does not
LifecycleErrors == { <<"Network error">>, <<"Status: 401">> }

\* Reasons of the endpoint's Close events (<<>>: none)
CloseReasons == { <<>> }

\* What listen.live() does in connect(): it returns a connection (Null), or
\* throws an error with one of these messages
LiveErrors == { Null, <<"boom">>, <<"Network error">> }

\* The same in the lifecycle specification
LifecycleLiveErrors == { Null, <<"boom">> }

\* The timers of connect() and finish()
Timers ==
    \/ \E c \in Conns : ConnectTimeout(c)
    \/ \E c \in Conns, e \in LifecycleLiveErrors : BackoffDone(c, e)
    \/ \E t \in BOOLEAN : FinishTimer(t)

\* The application, that is the hook driven by App.tsx, with an endpoint that
\* may open, fail and close every connection at any time
Next ==
    \/ \E m \in BOOLEAN, v \in ValidateAtOnce : AppInitialize(m, v)
    \/ \E g \in BOOLEAN, v \in ValidateAtOnce : MicResult(g, FALSE, v)
    \/ \E f \in LifecycleValidateErrors \cup {Null} : ValidateResult(f)
    \/ \E t1, t2 \in BOOLEAN, e \in LifecycleLiveErrors : ToggleRecording(t1, t2, e)
    \/ \E c \in Conns : OpenEvent(c)
    \/ \E c \in Conns, m \in LifecycleErrors : ErrorEvent(c, m)
    \/ \E c \in Conns, code \in CloseCodes, r \in CloseReasons : CloseEvent(c, code, r)
    \/ Timers
    \/ \E t \in BOOLEAN : AudioProcess(t)

Spec == Init /\ [][Next]_vars

\* Texts of the endpoint's transcript events (<<>>: an empty alternative)
Texts == { <<>>, <<"he">>, <<"hello">> }

\* The session has asked the endpoint to close c, or has let go of c.
Released(c) == svc.connection # c \/ stops.waiting > 0

\* The application with an endpoint that opens every connection, sends
\* transcripts and closes a connection only when the session has asked for it
\* or has let go of it
NextMerge ==
    \/ AppInitialize(FALSE, Null)
    \/ MicResult(TRUE, FALSE, Null)
    \/ ValidateResult(Null)
    \/ \E t1, t2 \in BOOLEAN, e \in LifecycleLiveErrors : ToggleRecording(t1, t2, e)
    \/ ClearButton
    \/ \E t \in BOOLEAN : CopyButton(t)
    \/ \E r \in BOOLEAN : CopySettled(r)
    \/ \E c \in Conns : OpenEvent(c)
    \/ \E c \in Conns, t \in Texts, f \in BOOLEAN : TranscriptEvent(c, t, f)
    \/ \E c \in Conns : Released(c) /\ CloseEvent(c, NormalClosure, <<>>)
    \/ \E t \in BOOLEAN : FinishTimer(t)
    \/ \E t \in BOOLEAN : AudioProcess(t)

SpecMerge == Init /\ [][NextMerge]_vars

\* The application until it is unmounted, and what goes on after that: the
\* endpoint opens and closes connections, timers fire, pending calls settle
NextTeardown ==
    \/ \E m \in BOOLEAN, v \in ValidateAtOnce :
          unmount.st = "no" /\ AppInitialize(m, v)
    \/ \E g \in BOOLEAN, v \in ValidateAtOnce : MicResult(g, FALSE, v)
    \/ ValidateResult(Null)
    \/ \E t1, t2 \in BOOLEAN, e \in LifecycleLiveErrors :
          unmount.st = "no" /\ ToggleRecording(t1, t2, e)
    \/ \E c \in Conns : OpenEvent(c)
    \/ \E c \in Conns, code \in CloseCodes : CloseEvent(c, code, <<>>)
    \/ \E c \in Conns : ConnectTimeout(c)
    \/ \E t \in BOOLEAN : FinishTimer(t)
    \/ \E t \in BOOLEAN : AudioProcess(t)
    \/ \E t1, t2 \in BOOLEAN : Unmount(t1, t2)
    \/ \E t \in BOOLEAN : UnmountFinishTimer(t)

SpecTeardown == Init /\ [][NextTeardown]_vars

\* The hook as its functions can be called, whatever isReady and isProcessing
\* are, with an endpoint that may open and close every connection at any time
NextApi ==
    \/ \E k, m \in BOOLEAN, v \in ValidateAtOnce : Initialize(k, m, v)
    \/ \E g, k \in BOOLEAN, v \in ValidateAtOnce : MicResult(g, k, v)
    \/ \E f \in LifecycleValidateErrors \cup {Null} : ValidateResult(f)
    \/ \E e \in LiveErrors : StartRecording(e)
    \/ \E t1, t2 \in BOOLEAN : StopRecording(t1, t2)
    \/ \E c \in Conns : OpenEvent(c)
    \/ \E c \in Conns, code \in CloseCodes : CloseEvent(c, code, <<>>)
    \/ \E c \in Conns : ConnectTimeout(c)
    \/ \E c \in Conns, e \in LiveErrors : BackoffDone(c, e)
    \/ \E t \in BOOLEAN : FinishTimer(t)
    \/ \E t \in BOOLEAN : AudioProcess(t)

SpecApi == Init /\ [][NextApi]_vars

\* The asynchronous calls of the hook, driven by App.tsx, and everything that
\* settles them: the endpoint's events, the timers of connect() and finish(),
\* the microphone request and the key validation.  validateApiKey() and
\* runDiagnostics() are called while fewer than MaxPendingChecks of their calls
\* are suspended.
NextCalls ==
    \/ \E m \in BOOLEAN, v \in ValidateAtOnce : AppInitialize(m, v)
    \/ \E g \in BOOLEAN, v \in ValidateAtOnce : MicResult(g, FALSE, v)
    \/ \E f \in LifecycleValidateErrors \cup {Null} : ValidateResult(f)
    \/ \E t1, t2 \in BOOLEAN, e \in LifecycleLiveErrors : ToggleRecording(t1, t2, e)
    \/ \E v \in ValidateAtOnce :
          PendingChecks < MaxPendingChecks /\ HookValidate(v)
    \/ \E f \in LifecycleValidateErrors \cup {Null} : HookValidateResult(f)
    \/ \E a \in BOOLEAN, e \in LifecycleLiveErrors :
          PendingChecks < MaxPendingChecks /\ RunDiagnostics(a, e)
    \/ \E e \in LifecycleLiveErrors : DiagnosticsValidateResult(e)
    \/ DiagnosticsProbeResult
    \/ \E c \in Conns : OpenEvent(c)
    \/ \E c \in Conns, m \in LifecycleErrors : ErrorEvent(c, m)
    \/ \E c \in Conns, code \in CloseCodes : CloseEvent(c, code, <<>>)
    \/ \E c \in Conns : ConnectTimeout(c)
    \/ \E c \in Conns, e \in LifecycleLiveErrors : BackoffDone(c, e)
    \/ \E t \in BOOLEAN : FinishTimer(t)

\* An armed timer of connect() or of finish() fires.  No pending promise of
\* the platform is assumed to settle: getUserMedia() and invoke() of the native
\* probe are awaited without a timer (part_000:54, part_000:23-26)
FairCalls ==
    /\ \A c \in Conns : WF_vars(ConnectTimeout(c))
    /\ \A c \in Conns : WF_vars(\E e \in LifecycleLiveErrors : BackoffDone(c, e))
    /\ WF_vars(\E t \in BOOLEAN : FinishTimer(t))

SpecCalls == Init /\ [][NextCalls]_vars /\ FairCalls

\* Message texts of Error events that match several patterns at once
MixedErrorMsgs ==
    { <<"Status: 401", " ", "403 Forbidden">>,
      <<"403 Forbidden", " ", "timeout">>,
      <<"Ready State: CLOSED", " ", "access token">>,
      <<"Network error", " ", "Status: 403">> }

\* The application, initialized once, with an endpoint that opens connections
\* and reports errors of every kind on them, while connect() waits and during
\* the recording; the SDK's finish() does not throw
NextErrors ==
    \/ ~audioRef /\ AppInitialize(FALSE, Null)
    \/ MicResult(TRUE, FALSE, Null)
    \/ ValidateResult(Null)
    \/ \E e \in LifecycleLiveErrors : ToggleRecording(FALSE, FALSE, e)
    \/ \E c \in Conns : OpenEvent(c)
    \/ \E c \in Conns, m \in RawErrorMsgs \cup MixedErrorMsgs : ErrorEvent(c, m)
    \/ \E c \in Conns : ConnectTimeout(c)
    \/ \E c \in Conns, e \in LifecycleLiveErrors : BackoffDone(c, e)
    \/ FinishTimer(FALSE)

SpecErrors == Init /\ [][NextErrors]_vars

\* float32ToLinear16() alone, on every frame of Frames
InitEncode ==
    /\ InitObjects
    /\ \E f \in Frames : pcm = [NoFrame EXCEPT !.float32Array = f]

NextEncode == Float32ToLinear16Call

SpecEncode == InitEncode /\ [][NextEncode]_vars

(* ------------------------------- claims -------------------------------- *)

\* C1: the session's connected flag turns true only in the step of an Open
\* event on a connection that was still connecting, and startRecording() gets
\* past connect() (the capture source starts, isRecording turns true) only with
\* the flag set - whatever Error, Close and timer events came before.
C1_ConnectedOnlyByOpen ==
    [][ /\ (~svc.isConnected /\ svc'.isConnected)
            => \E c \in Conns : conns[c].st = "connecting" /\ conns'[c].st = "open"
        /\ (~audio.isRecording /\ audio'.isRecording) => svc'.isConnected
        /\ (~state.isRecording /\ state'.isRecording) => svc'.isConnected ]_vars

\* C1's case: the first attempt failed with an Error event, the second
\* connection was opened by the endpoint, and recording has started.
C1_Witness ==
    /\ svc.isConnected
    /\ svc.connection = 2
    /\ conns[2].st = "open"
    /\ conns[1].st # "open"
    /\ state.isRecording
    /\ audio.isRecording
    /\ state.error = <<"Network error">>

\* The session is Open: it is marked connected and the connection it holds is
\* open
SessionOpen ==
    /\ svc.isConnected
    /\ svc.connection # NoConn
    /\ conns[svc.connection].st = "open"

\* C2: a sendAudio() call made while the session is not Open fails with the
\* not-connected error and makes no connection.send() call.
C2_SendWhileNotConnected ==
    (out # <<>> /\ ~SessionOpen)
        => out = << <<"sendAudio", MsgNotConnected>> >>

\* C3: the transcript is the texts of the final events joined by exactly one
\* space, with no leading or trailing separator: a final event with text t
\* turns an empty transcript into t, and a transcript s into s, a space, t.
C3_FinalsJoinedBySingleSpace ==
    [][ \A c \in Conns, t \in Texts :
            (t # <<>> /\ svc.onTranscriptCallback /\ TranscriptEvent(c, t, TRUE))
                => state'.transcript = IF state.transcript = <<>>
                                       THEN t
                                       ELSE state.transcript \o <<" ">> \o t ]_vars

\* C4: an interim transcript event replaces interimTranscript by the event's
\* text, whatever it held, and changes nothing else of the hook's state, nor
\* the session or the capture source.
C4_InterimReplaces ==
    [][ \A c \in Conns, t \in Texts :
            TranscriptEvent(c, t, FALSE)
                => /\ state' = [state EXCEPT !.interimTranscript = t]
                   /\ UNCHANGED <<svc, audio, conns, stops>> ]_vars

\* C5: whenever isRecording is true, the session is connected, holds a
\* connection that is open, and the capture source is recording with its
\* processor node connected.
C5_RecordingImpliesOpenAndCapturing ==
    state.isRecording
        => /\ svc.isConnected
           /\ svc.connection # NoConn
           /\ conns[svc.connection].st = "open"
           /\ audio.isRecording
           /\ audio.procConnected

\* C6: at no time are two connections open.
C6_AtMostOneOpen ==
    Cardinality({c \in Conns : conns[c].st = "open"}) <= 1

\* C7: a connect() call creates at most two connections: no call has created
\* more, and once a call has created two, the loop condition lets it create
\* no other when its backoff is over.
C7_AtMostTwoAttempts ==
    \A c \in Conns :
        /\ conns[c].made <= 2
        /\ (conns[c].call = "backoff" /\ conns[c].made >= 2)
               => ~MayAttempt(conns[c].attempts)

\* C7's case: both attempts of a connect() call have failed with a transient
\* error, and the call is in the backoff after the second.
C7_Witness ==
    \E c \in Conns :
        /\ conns[c].call = "backoff"
        /\ conns[c].made = 2
        /\ conns[c].lastError = <<"Network error">>

\* C8: when the connection of a connect() call's first attempt is closed
\* abnormally (code 1006) before it was opened, the call goes into its backoff,
\* to make its second attempt.
C8_AbnormalCloseRetried ==
    [][ \A c \in Conns :
            ( /\ conns[c].st = "connecting"
              /\ conns[c].call = "await"
              /\ conns[c].made = 1
              /\ CloseEvent(c, AbnormalClosure, <<>>) )
                => conns'[c].call = "backoff" ]_vars

\* C9: a Close event with code 1006 on the session's connection hands the
\* abnormal-closure message to the hook's error callback, which stores it and
\* ends the recording.
C9_AbnormalCloseDispatched ==
    [][ \A c \in Conns :
            (svc.connection = c /\ CloseEvent(c, AbnormalClosure, <<>>))
                => state'.error = MsgClosedAbnormally /\ ~state'.isRecording ]_vars

\* The steps of stopRecording(), in the order the hook is to take them
StopOrder == <<"audio.stopRecording", "finish", "finish returned", "disconnect">>

\* A step of stopRecording(), not a call made by one
IsStopStep(x) == x # "connection.finish"

\* C10: what a stopRecording() call has done is always a beginning of: stop
\* the capture source, call finish(), finish() returns, call disconnect().
C10_StopOrder ==
    LET steps == SelectSeq(stops.trace, IsStopStep)
    IN  /\ Len(steps) <= Len(StopOrder)
        /\ steps = SubSeq(StopOrder, 1, Len(steps))

\* C10's case: a stopRecording() call that waited in finish() has run to
\* its end.
C10_Witness ==
    /\ stops.trace = <<"audio.stopRecording", "finish", "connection.finish",
                       "finish returned", "disconnect", "connection.finish">>
    /\ stops.waiting = 0
    /\ ~state.isRecording

\* A step in which a stopRecording() call comes to its end: the 500 ms timer of
\* finish() resumes it, or it runs through without waiting.
StopResolves ==
    \/ \E t \in BOOLEAN : FinishTimer(t)
    \/ /\ state.isRecording
       /\ stops'.waiting = stops.waiting
       /\ \E t1, t2 \in BOOLEAN, e \in LifecycleLiveErrors : ToggleRecording(t1, t2, e)

\* C11: when a stopRecording() call has come to its end, through its try block
\* or through its catch, isRecording and isProcessing are false and
\* interimTranscript is empty.
C11_StoppedState ==
    [][ StopResolves
            => /\ ~state'.isRecording
               /\ ~state'.isProcessing
               /\ state'.interimTranscript = <<>> ]_vars

\* The calls of the cleanup that the teardown is to make, in order
TeardownOrder == <<"audio.cleanup", "finish", "disconnect">>

\* One of those calls
IsTeardownCall(x) == x \in {"audio.cleanup", "finish", "disconnect"}

\* C12: when the cleanup of an unmount that began with isRecording true has
\* run to its end, it has called cleanup() of the capture source, finish() and
\* disconnect(), each once and in that order, also when connection.finish()
\* threw inside finish(); and the capture source holds no stream, context or
\* processor and is not recording.
C12_TeardownWhileRecording ==
    (unmount.st = "done" /\ unmount.wasRecording)
        => /\ SelectSeq(unmount.trace, IsTeardownCall) = TeardownOrder
           /\ ~audio.isRecording
           /\ ~audio.mediaStream
           /\ ~audio.audioContext
           /\ ~audio.scriptProcessor
           /\ ~audio.procConnected

\* C12's case: the hook was unmounted while recording on a session the
\* endpoint had already closed, the cleanup waited in finish() and then
\* disconnected.
C12_Witness ==
    /\ unmount.st = "done"
    /\ unmount.wasRecording
    /\ unmount.trace = <<"audio.cleanup", "audio.stopRecording", "finish",
                         "connection.finish", "finish returned", "disconnect",
                         "connection.finish">>
    /\ svc.connection = NoConn

\* C13: validateApiKey() throws exactly when the browser probe and the native
\* probe both failed (it returns when the browser probe failed and the native
\* one succeeded), and the native probe is invoked at most once and only after
\* the browser probe has resolved with a failure.
C13_ThrowsIffBothProbesFail ==
    /\ val.st \in {"returned", "thrown"} =>
         (val.st = "thrown" <=> (~val.primary.success /\ ~val.native.success))
    /\ val.st = "thrown" =>
         val.natives = 1 /\ val.error = ValidateError(val.primary, val.native)
    /\ val.st = "primary" => val.natives = 0
    /\ val.natives > 0 =>
         /\ val.natives = 1
         /\ val.primary # NoResult
         /\ ~val.primary.success
    /\ (val.st \in {"returned", "thrown"} /\ val.primary.success) => val.natives = 0

\* The browser probe timed out, the native probe succeeded, validateApiKey()
\* returned
C13_Witness ==
    /\ val.st = "returned"
    /\ val.primary.message = <<"WebSocket probe timed out">>
    /\ val.native.success

\* C14: a probe that created a connection has called finish() on it exactly
\* once when its result is delivered, whichever of Open, Error, Close and the
\* timeout delivered it, and never before; later events do not finish it again.
C14_ProbeFinishesOnce ==
    probe.conn # "none" =>
        /\ probe.fin <= 1
        /\ probe.st = "resolved" <=> probe.fin = 1
        /\ probe.st = "pending" <=> probe.fin = 0

\* The timeout resolved the probe and the connection closed afterwards
C14_Witness ==
    /\ probe.st = "resolved"
    /\ probe.fin = 1
    /\ probe.conn = "closed"
    /\ probe.result.message = <<"WebSocket probe timed out">>

\* A step of the probe that is not a new call of probeConnection()
ProbeEvent ==
    \/ \E i \in InvokeOutcomes : ProbeTimeout(i)
    \/ ProbeOpen
    \/ \E m \in RawErrorMsgs, i \in InvokeOutcomes : ProbeError(m, i)
    \/ \E code \in CloseCodes, r \in ProbeCloseReasons, i \in InvokeOutcomes :
          ProbeClose(code, r, i)

\* C15: a pending probe eventually resolves, and it never rejects; the first of
\* Open, Error, Close and the timeout decides the result (success on Open, the
\* timeout message on the timeout, the close code and reason on Close), and
\* events after the first change neither the result nor that it is resolved.
C15_ProbeResolvesOnceByFirstEvent ==
    /\ (probe.st = "pending") ~> (probe.st = "resolved")
    /\ [][(probe.st = "pending" /\ ProbeOpen) =>
            /\ probe'.st = "resolved"
            /\ probe'.result = [success |-> TRUE,
                                message |-> <<"WebSocket opened successfully">>,
                                code |-> 0]]_vars
    /\ [][(probe.st = "pending" /\ \E i \in InvokeOutcomes : ProbeTimeout(i)) =>
            /\ probe'.st = "resolved"
            /\ probe'.result = [success |-> FALSE,
                                message |-> <<"WebSocket probe timed out">>,
                                code |-> 0]]_vars
    /\ [][\A code \in CloseCodes, r \in ProbeCloseReasons :
            (probe.st = "pending" /\ \E i \in InvokeOutcomes : ProbeClose(code, r, i)) =>
                /\ probe'.st = "resolved"
                /\ ~probe'.result.success
                /\ probe'.result.code = code
                /\ probe'.result.message =
                     <<"Closed (code ", ToString(code), ")">>
                       \o (IF r # <<>> THEN <<": ">> \o r ELSE <<>>)]_vars
    /\ [][\A m \in RawErrorMsgs :
            (probe.st = "pending" /\ \E i \in InvokeOutcomes : ProbeError(m, i)) =>
                /\ probe'.st = "resolved"
                /\ ~probe'.result.success]_vars
    /\ [][(probe.st = "resolved" /\ ProbeEvent) =>
            /\ probe'.st = "resolved"
            /\ probe'.result = probe.result]_vars

\* The timeout resolved the probe and the connection opened afterwards
C15_Witness ==
    /\ probe.st = "resolved"
    /\ probe.conn = "open"
    /\ probe.result.message = <<"WebSocket probe timed out">>

\* C16: isReady becomes true only in the step in which the key validation of an
\* initialize() call succeeds, and then the microphone has been acquired.
C16_ReadyOnlyAfterValidation ==
    [][(~state.isReady /\ state'.isReady) =>
          /\ audio'.mediaStream
          /\ valPending
          /\ ~valPending']_vars

\* C17: a startRecording() call made while isReady is false leaves the session,
\* its connections and the capture source as they were, and isRecording false.
C17_StartRequiresReady ==
    [][(~state.isReady /\ \E e \in LiveErrors : StartRecording(e)) =>
          /\ UNCHANGED <<svc, conns, audio>>
          /\ ~state'.isRecording]_vars

\* The session after a disconnect(): not connected, no connection handle, no
\* callbacks
Disconnected ==
    svc = [connection |-> NoConn, isConnected |-> FALSE,
           onTranscriptCallback |-> FALSE, onErrorCallback |-> FALSE]

\* C18: the step in which a stopRecording() call comes back from finish() runs
\* disconnect(), whatever state the session's connection is in, and ends with
\* the session not connected, without a connection handle and without callbacks.
C18_DisconnectClears ==
    [][(\E t \in BOOLEAN : FinishTimer(t)) => Disconnected']_vars

\* The calls of a stopRecording() call go on from the return of finish() to
\* disconnect()
GoesOnToDisconnect(t) ==
    \E i \in 1..(Len(t) - 1) : t[i] = "finish returned" /\ t[i + 1] = "disconnect"

\* C19: a stopRecording() call that has called finish() is suspended in the
\* 500 ms wait of finish(), which it enters only after a connection.finish()
\* that returned, or finish() has returned to it and its next call was
\* disconnect(): so it is when there was no connection and when
\* connection.finish() threw.
C19_FinishNeverPropagates ==
    /\ stops.trace # <<>> =>
          \/ stops.trace = TraceToFinish
          \/ GoesOnToDisconnect(stops.trace)
    /\ stops.trace = TraceToFinish => stops.waiting > 0

\* stopRecording() found the session without a connection: finish() returned
\* at once and disconnect() was called
C19_Witness ==
    stops.trace = <<"audio.stopRecording", "finish", "finish returned", "disconnect">>

\* c is the connection of a recording that was started after a stopRecording()
\* call had run to its disconnect()
LaterSession(c) ==
    /\ GoesOnToDisconnect(stops.trace)
    /\ stops.waiting = 0
    /\ state.isRecording
    /\ svc.connection = c
    /\ conns[c].st = "open"

\* C20: in a recording started after a stopRecording() call has run to its
\* disconnect(), a non-empty final transcript event on the session's
\* connection is appended to the hook's transcript, and a Close event with code
\* 1006 on it sets the hook's error.
C20_LaterSessionTranscribes ==
    \A c \in Conns :
        (LaterSession(c) /\ Len(state.transcript) < 2 * MaxFinals) =>
            /\ ENABLED ( /\ TranscriptEvent(c, <<"hello">>, TRUE)
                         /\ Len(state'.transcript) > Len(state.transcript) )
            /\ ENABLED ( /\ CloseEvent(c, AbnormalClosure, <<>>)
                         /\ state'.error = MsgClosedAbnormally )

\* A call of initialize(), startRecording(), stopRecording(), of the hook's
\* validateApiKey() or of runDiagnostics() is suspended
InFlight ==
    \/ micPending
    \/ valPending
    \/ \E c \in Conns : conns[c].call # "none"
    \/ stops.waiting > 0
    \/ PendingChecks > 0

\* C21: isProcessing is true only while a call of the hook is in flight, and
\* isProcessing true always leads to isProcessing false.
C21_ProcessingIsTransient ==
    /\ [](state.isProcessing => InFlight)
    /\ state.isProcessing ~> ~state.isProcessing

\* The patterns of the three categories, as sets of fragments
AuthPatterns == { "Status: 401", "401 Unauthorized", "No key or access token provided",
                  "access token" }
ForbiddenPatterns == { "Status: 403", "403 Forbidden" }
NetworkPatterns == { "Connection timeout", "timeout", "Timeout", "Ready State: CLOSING",
                     "Ready State: CLOSED" }

Has(m, patterns) == \E i \in 1..Len(m) : m[i] \in patterns

\* C22: an Error event on a connection, outside a connect() call that the
\* error makes give up, leaves in the hook's error field the message of the
\* event's category: the authentication message when the text has a 401 or
\* access-token pattern; else the permission message when it has a 403 pattern;
\* else the network message when it has a timeout or closed-state pattern; else
\* the event's own text (the default text when it has none).
C22_ErrorClassifiedByPrecedence ==
    [][ \A c \in Conns, m \in RawErrorMsgs \cup MixedErrorMsgs :
            ( /\ svc.onErrorCallback
              /\ conns[c].call = "none" \/ IsTransient(m)
              /\ ErrorEvent(c, m) )
                => /\ Has(m, AuthPatterns) => state'.error = MsgAuthFailed
                   /\ (~Has(m, AuthPatterns) /\ Has(m, ForbiddenPatterns))
                         => state'.error = MsgPermissionDenied
                   /\ ( /\ ~Has(m, AuthPatterns)
                        /\ ~Has(m, ForbiddenPatterns)
                        /\ Has(m, NetworkPatterns) )
                         => state'.error = MsgNetworkError
                   /\ ( /\ ~Has(m, AuthPatterns)
                        /\ ~Has(m, ForbiddenPatterns)
                        /\ ~Has(m, NetworkPatterns) )
                         => state'.error = IF m = <<>> THEN MsgTranscriptionError ELSE m
                   /\ ~state'.isRecording
                   /\ ~state'.isProcessing ]_vars

\* An Error event of the authentication category was reported during a
\* recording
C22_Witness ==
    /\ state.error = MsgAuthFailed
    /\ audio.isRecording
    /\ \E c \in Conns : conns[c].st = "open" /\ svc.connection = c

\* C23: the hook's error field never holds the text of an Error event as the
\* endpoint sent it: the text has been replaced by a category message or has
\* been given a prefix.
C23_ErrorNeverRawText ==
    state.error \notin ((RawErrorMsgs \cup MixedErrorMsgs) \ {Null})

C25_SendFailureNotFatal ==
    [][ \A t \in BOOLEAN :
            AudioProcess(t) =>
                /\ UNCHANGED <<state, audio, svc, conns, stops, audioRef, svcRef>>
                /\ (audio.isRecording /\ audio.onDataAvailableCallback /\ svcRef)
                      => /\ out' # <<>>
                         /\ out'[Len(out')][1] = "sendAudio" ]_vars

\* The sendAudio() call of the last frame failed, and the recording goes on
C25_Witness ==
    /\ out # <<>>
    /\ out[Len(out)][1] = "sendAudio"
    /\ out[Len(out)][2] # Null
    /\ state.isRecording
    /\ audio.isRecording
    /\ audio.procConnected

\* How often connection.finish() was called in the calls recorded in t
FinishSignals(t) == Cardinality({ i \in DOMAIN t : t[i] = "connection.finish" })

\* C26: when a stopRecording() call comes back from the wait of finish() and
\* the session's connection is still open, the call has made, at its end, one
\* connection.finish() call and no more.
C26_OneFinishSignal ==
    [][ \A t \in BOOLEAN :
            ( /\ svc.connection # NoConn
              /\ conns[svc.connection].st = "open"
              /\ FinishTimer(t) )
                => FinishSignals(stops'.trace) <= 1 ]_vars

\* A step in which startRecording() of the hook gets to call startRecording()
\* of the capture source: connect() returns to it on Open, or at once because
\* the session is connected
CallsAudioStart ==
    \/ \E c \in Conns : conns[c].call = "await" /\ OpenEvent(c)
    \/ /\ svc.isConnected
       /\ audioRef
       /\ svcRef
       /\ StartRecording(Null)

\* C27: the capture source holds a media stream only between a granted
\* request and cleanup(), and without one it never records; when its
\* startRecording() is called without a media stream, it throws (the hook
\* stores the message), and the capture source stays as it was: not recording,
\* no frame callback, no processor connected.
C27_StartRejectedWithoutAccess ==
    /\ [](~audio.mediaStream =>
            /\ ~audio.isRecording
            /\ ~audio.procConnected
            /\ ~audio.onDataAvailableCallback)
    /\ [][(~audio.mediaStream /\ CallsAudioStart) =>
            /\ audio' = audio
            /\ unmount.st = "no" =>
                  /\ state'.error = MsgNoMediaStream
                  /\ ~state'.isRecording
                  /\ ~state'.isProcessing]_vars

\* startRecording() of the capture source was rejected after a denied request
C27_Witness ==
    /\ state.error = MsgNoMediaStream
    /\ ~audio.mediaStream
    /\ ~audio.isRecording
    /\ ~audio.onDataAvailableCallback
    /\ svc.isConnected

\* A capture source that holds nothing and does not record
ReleasedAudio ==
    [mediaStream |-> FALSE, audioContext |-> FALSE, scriptProcessor |-> FALSE,
     procConnected |-> FALSE, isRecording |-> FALSE, onDataAvailableCallback |-> FALSE]

\* C28: in every state cleanup() of the capture source returns without an
\* exception and leaves it not recording, without processor, audio context,
\* media stream and frame callback, and a second cleanup() returns without an
\* exception and changes nothing; the unmount cleanup leaves the capture
\* source in that state.
C28_CleanupIdempotent ==
    /\ [](LET once == AudioCleanup(W)
              twice == AudioCleanup(once)
          IN  /\ once.audio = ReleasedAudio
              /\ once.exc = Null
              /\ twice.audio = once.audio
              /\ twice.exc = Null
              /\ twice.state = once.state /\ twice.svc = once.svc)
    /\ [][(\E t1, t2 \in BOOLEAN : Unmount(t1, t2)) => audio' = ReleasedAudio]_vars

\* The unmount cleanup has released a capture source that was recording, and
\* waits in finish()
C28_Witness ==
    /\ unmount.st = "waiting"
    /\ unmount.wasRecording
    /\ audio = ReleasedAudio

\* The sample that the bytes 2i-1 and 2i of a buffer hold
Int16At(buffer, i) ==
    LET u == buffer[2 * i - 1] + 256 * buffer[2 * i]
    IN  IF u >= 32768 THEN u - 65536 ELSE u

\* C29: the buffer float32ToLinear16() returns holds two bytes for each
\* element of the frame, every sample in it is within -32768..32767 and has
\* the sign of its element (no value wraps around), 1.0 gives 32767, -1.0
\* gives -32768, 0 gives 0, and an element beyond 1 or -1 gives what 1 or -1
\* gives.
C29_EncodeWithinInt16 ==
    pcm.called =>
        LET f == pcm.float32Array
            b == pcm.buffer
        IN  /\ Len(b) = 2 * Len(f)
            /\ \A j \in 1..Len(b) : b[j] \in 0..255
            /\ \A i \in 1..Len(f) :
                  LET v == Int16At(b, i)
                  IN  /\ v \in (-32768)..32767
                      /\ f[i] = Num(SampleScale) => v = 32767
                      /\ f[i] = Num(-SampleScale) => v = -32768
                      /\ f[i] = Num(0) => v = 0
                      /\ (f[i].kind # "nan" /\ Lt(Num(SampleScale), f[i])) => v = 32767
                      /\ (f[i].kind # "nan" /\ Lt(f[i], Num(-SampleScale))) => v = -32768
                      /\ (f[i].kind # "nan" /\ Lt(Num(0), f[i])) => v >= 0
                      /\ (f[i].kind # "nan" /\ Lt(f[i], Num(0))) => v =< 0

\* C29's case: a frame with 1.0 and a value below -1 has been converted
C29_Witness ==
    /\ pcm.called
    /\ \E i, j \in 1..Len(pcm.float32Array) :
          /\ pcm.float32Array[i] = Num(SampleScale)
          /\ pcm.float32Array[j] = Num(-2 * SampleScale)
    /\ Len(pcm.buffer) = 2 * Len(pcm.float32Array)

\* C30: while the hook's callback is registered, a final transcript event on
\* the session's open connection, whatever its text, leaves interimTranscript
\* empty, and when it has a text appends that text once to the transcript.
C30_FinalClearsInterim ==
    \A c \in Conns, t \in Texts :
        ( /\ svc.connection = c
          /\ conns[c].st = "open"
          /\ svc.onTranscriptCallback
          /\ unmount.st = "no"
          /\ Len(state.transcript) < 2 * MaxFinals )
            => ENABLED ( /\ TranscriptEvent(c, t, TRUE)
                         /\ state'.interimTranscript = <<>>
                         /\ t # <<>> => state'.transcript = state.transcript \o <<" ">> \o t )

\* The last task was a frame whose sendAudio() called connection.send() on c
FrameSentOn(c) ==
    /\ out # <<>>
    /\ out[1][1] = "connection.send"
    /\ out[1][2] = c

\* A stopRecording() call waits in finish(), and c is the connection it called
\* connection.finish() on
FinishSentOn(c) == \E i \in 1..Len(stops.finished) : stops.finished[i] = c

\* C31: no frame is given to connection.send() of a connection on which a
\* stopRecording() call, still waiting in finish(), has called
\* connection.finish().
C31_NoFrameAfterFinish ==
    \A c \in Conns : FinishSentOn(c) => ~FrameSentOn(c)

\* The first attempt of the connect() call that waits on c fails with err
FirstAttemptFails(c, err) ==
    /\ conns[c].call = "await"
    /\ conns[c].made = 1
    /\ \/ err = MsgConnectionTimeout /\ ConnectTimeout(c)
       \/ ErrorEvent(c, err)

\* connect() gives up on c with err, having made no connection but c: the call
\* is over, no connection was created and none is awaited, and startRecording()
\* has caught what connect() threw
GivesUp(c, err) ==
    /\ conns'[c].call = "none"
    /\ \A d \in Conns : conns[d].st = "new" => conns'[d].st = "new"
    /\ \A d \in Conns : conns'[d].call = "none" \/ conns'[d] = conns[d]
    /\ state'.error = <<"Failed to connect to transcription service: ">> \o err
    /\ ~state'.isRecording
    /\ ~state'.isProcessing

\* C32: when the first attempt of a connect() call fails with the timeout or
\* with an Error event whose message holds neither '1006' nor 'Network
\* error', connect() makes no further attempt, invokes the error callback and
\* throws.
C32_NonTransientNotRetried ==
    [][ \A c \in Conns, err \in (LifecycleErrors \cup {MsgConnectionTimeout}) :
            (~IsTransient(err) /\ FirstAttemptFails(c, err))
                => /\ GivesUp(c, err)
                   /\ svc.onErrorCallback ]_vars

\* A frame event hands a frame to the hook's callback, and so to sendAudio()
FrameDelivered == \E t \in BOOLEAN : AudioProcess(t) /\ out' # <<>>

\* C33: stopRecording() and cleanup() of the capture source leave it not
\* recording, and while it is not recording no frame event invokes the frame
\* callback: nothing is given to sendAudio(), whether or not the callback is
\* still registered and the session still connected.
C33_NoFrameAfterStop ==
    /\ [](~audio.isRecording => ~ENABLED FrameDelivered)
    /\ [][(\E t1, t2 \in BOOLEAN : audioRef /\ svcRef /\ StopRecording(t1, t2))
             => ~audio'.isRecording]_vars
    /\ [][(\E t1, t2 \in BOOLEAN : audioRef /\ Unmount(t1, t2))
             => ~audio'.isRecording]_vars

\* C33's case: the capture source was stopped, its processor still exists and
\* may get a late event, the frame callback is still registered and the
\* session still connected on an open connection
C33_Witness ==
    /\ ~audio.isRecording
    /\ audio.scriptProcessor
    /\ audio.onDataAvailableCallback
    /\ svc.isConnected
    /\ svc.connection # NoConn
    /\ conns[svc.connection].st = "open"
    /\ stops.waiting > 0
    /\ ENABLED AudioProcess(FALSE)

\* C34: startRecording() of a capture source that is recording does not
\* throw, makes no processor node and leaves the capture source as it is, with
\* its callback and recording; and when the hook's startRecording() gets to
\* call it on a recording capture source, the capture source stays as it is
\* and the hook, while mounted, goes on to isRecording true.
C34_SecondStartIsNoOp ==
    /\ [](audio.isRecording =>
            LET w == AudioStartRecording(W)
            IN  /\ w.exc = Null
                /\ w.trace = <<>>
                /\ w.audio = audio
                /\ w.audio.isRecording
                /\ w.audio.onDataAvailableCallback)
    /\ [][(audio.isRecording /\ CallsAudioStart) =>
            /\ audio' = audio
            /\ unmount.st = "no" => (state'.isRecording /\ ~state'.isProcessing)]_vars

\* C34's case: the capture source records, the hook shows isRecording false
\* after an error callback, and a startRecording() call of the hook waits for
\* Open, after which it calls startRecording() of the capture source
C34_Witness ==
    /\ audio.isRecording
    /\ audio.onDataAvailableCallback
    /\ ~state.isRecording
    /\ \E c \in Conns :
          /\ conns[c].call = "await"
          /\ ENABLED OpenEvent(c)

\* No connect() call waits on c: the one that made c has thrown, or has gone
\* on to a later attempt
Abandoned(c) == conns[c].call # "await"

\* C35: an Open event on a connection that no connect() call waits on leaves
\* a session that is not connected not connected; and whenever connect()
\* returns to startRecording(), the session's connection is open, so that
\* connection.send() accepts a frame.
C35_LateOpenIgnored ==
    /\ [][ \A c \in Conns :
              (~svc.isConnected /\ Abandoned(c) /\ OpenEvent(c)) => ~svc'.isConnected ]_vars
    /\ [][ CallsAudioStart =>
              /\ svc'.connection # NoConn
              /\ conns'[svc'.connection].st = "open" ]_vars

\* C36: a Close event on a connection that is not the session's leaves a
\* connected session, whose own connection is open, connected.
C36_StaleCloseIgnored ==
    [][ \A c \in Conns, code \in CloseCodes :
           ( /\ svc.isConnected
             /\ svc.connection # NoConn
             /\ svc.connection # c
             /\ conns[svc.connection].st = "open"
             /\ CloseEvent(c, code, <<>>) )
               => svc'.isConnected ]_vars

\* C37: while isReady is true the capture source holds the media stream of a
\* granted request, and isReady becomes true only in the step in which
\* validateApiKey() resolves for initialize().
C37_ReadyMeansAccessAndValidKey ==
    /\ [](state.isReady => audio.mediaStream)
    /\ [][(~state.isReady /\ state'.isReady) => ValidateResult(Null)]_vars

\* isRecording is false and no startRecording() or stopRecording() call is
\* suspended, in connect() or in finish()
Quiescent ==
    /\ ~state.isRecording
    /\ \A c \in Conns : conns[c].call = "none"
    /\ stops.waiting = 0

\* C38: when the hook is quiescent the capture source is not recording and
\* the session is not connected.
C38_QuiescentHoldsNothing ==
    Quiescent => /\ ~audio.isRecording
                 /\ ~svc.isConnected

\* C39: when validateApiKey() throws after a browser probe whose failure
\* message names an authentication failure, it throws the authentication
\* error, whatever the native probe's failure message is.
C39_PrimaryAuthFailureWins ==
    (val.st = "thrown" /\ Matches(val.primary.message, FragValidateAuth))
        => val.error = MsgAuthFailed

====
